---- MODULE Spec2Model ----
(***************************************************************************)
(* Model of tls_cert_tracker.py: the scan of the target HTTPS proxies      *)
(* (fetch_target_https_proxies) and the report loop of __main__.           *)
(*                                                                         *)
(* Python values are records tagged by their type:                         *)
(*   None      [t |-> "None"]                                              *)
(*   str       [t |-> "str", s |-> sequence of one-character strings]      *)
(*   datetime  [t |-> "datetime", wall |-> seconds, aware |-> BOOLEAN,     *)
(*              off |-> utc offset in seconds]                             *)
(*   PEM text  [t |-> "pem", label, complete, not_after]                   *)
(* Instants are seconds since a model epoch; the date part of an ISO-8601  *)
(* string is the four-digit day number since that epoch.                   *)
(***************************************************************************)
EXTENDS Integers, Sequences, FiniteSets, TLC

\* ------------------------------------------------------------------ bounds
MaxProxies == 2
MaxRefs == 2
MaxTicks == 1

\* ------------------------------------------------------- program constants
DAY == 86400
HOUR == 3600
MINUTE == 60
SoonDays == 10
WarnDays == 30

Now0 == 100 * DAY

\* ------------------------------------------------------------ Python values
None == [t |-> "None"]

Str(chars) == [t |-> "str", s |-> chars]

IsStr(v) == v.t = "str"

IsDatetime(v) == v.t = "datetime"

\* bool(v) of a value held in cert_data
Truthy(v) ==
    CASE v.t = "None" -> FALSE
      [] v.t = "str" -> Len(v.s) > 0
      [] OTHER -> TRUE

\* ------------------------------------------------------------------ strings
DigitChars == <<"0", "1", "2", "3", "4", "5", "6", "7", "8", "9">>

IsDigit(c) == \E i \in 1..10 : DigitChars[i] = c

DigitVal(c) == (CHOOSE i \in 1..10 : DigitChars[i] = c) - 1

RECURSIVE Pad(_, _)
Pad(n, w) == IF w = 0 THEN <<>> ELSE Append(Pad(n \div 10, w - 1), DigitChars[(n % 10) + 1])

AllDigits(cs) == \A i \in 1..Len(cs) : IsDigit(cs[i])

RECURSIVE ParseNat(_)
ParseNat(cs) ==
    IF Len(cs) = 0 THEN 0
    ELSE 10 * ParseNat(SubSeq(cs, 1, Len(cs) - 1)) + DigitVal(cs[Len(cs)])

\* sub in s
Contains(sub, s) ==
    \E i \in 1..(Len(s) - Len(sub) + 1) : SubSeq(s, i, i + Len(sub) - 1) = sub

\* s.replace(c, new) for a one-character c
RECURSIVE Replace(_, _, _)
Replace(s, c, new) ==
    IF Len(s) = 0 THEN <<>>
    ELSE (IF Head(s) = c THEN new ELSE <<Head(s)>>) \o Replace(Tail(s), c, new)

ErrorWord == <<"E", "r", "r", "o", "r">>

\* the text of line 86 before str(e); "X" stands for the cross-mark emoji
ErrorPrefix ==
    <<"X", " ">> \o ErrorWord \o
    <<" ", "p", "a", "r", "s", "i", "n", "g", " ", "c", "e", "r", "t", ":", " ">>

UtcSuffix == <<"+", "0", "0", ":", "0", "0">>

\* ---------------------------------------------------------------- datetime
Naive(wall) == [t |-> "datetime", wall |-> wall, aware |-> FALSE, off |-> 0]

Aware(wall, off) == [t |-> "datetime", wall |-> wall, aware |-> TRUE, off |-> off]

\* the instant an aware datetime denotes
Instant(d) == d.wall - d.off

\* d.astimezone(pytz.utc): a naive d is taken to be in the host's local zone
AstimezoneUtc(d, tz) ==
    IF d.aware THEN Aware(Instant(d), 0) ELSE Aware(d.wall - tz, 0)

OffsetChars(off) ==
    LET a == IF off < 0 THEN 0 - off ELSE off
    IN  <<IF off < 0 THEN "-" ELSE "+">> \o Pad(a \div HOUR, 2) \o <<":">> \o
        Pad((a % HOUR) \div MINUTE, 2)

\* d.isoformat()
Isoformat(d) ==
    LET sod == d.wall % DAY
    IN  Pad(d.wall \div DAY, 4) \o <<"T">> \o
        Pad(sod \div HOUR, 2) \o <<":">> \o
        Pad((sod % HOUR) \div MINUTE, 2) \o <<":">> \o
        Pad(sod % MINUTE, 2) \o
        (IF d.aware THEN OffsetChars(d.off) ELSE <<>>)

Raised == [ok |-> FALSE, val |-> None]

Returned(v) == [ok |-> TRUE, val |-> v]

\* datetime.fromisoformat(s): DDDDTHH:MM:SS with an optional +HH:MM / -HH:MM
Fromisoformat(s) ==
    IF Len(s) \notin {13, 19} THEN Raised
    ELSE
      LET dd == SubSeq(s, 1, 4)
          hh == SubSeq(s, 6, 7)
          mm == SubSeq(s, 9, 10)
          ss == SubSeq(s, 12, 13)
          shape == /\ AllDigits(dd) /\ s[5] = "T"
                   /\ AllDigits(hh) /\ s[8] = ":"
                   /\ AllDigits(mm) /\ s[11] = ":"
                   /\ AllDigits(ss)
      IN
      IF ~shape THEN Raised
      ELSE IF ParseNat(hh) > 23 \/ ParseNat(mm) > 59 \/ ParseNat(ss) > 59 THEN Raised
      ELSE
        LET wall == ParseNat(dd) * DAY + ParseNat(hh) * HOUR + ParseNat(mm) * MINUTE + ParseNat(ss)
        IN
        IF Len(s) = 13 THEN Returned(Naive(wall))
        ELSE
          LET oh == SubSeq(s, 15, 16)
              om == SubSeq(s, 18, 19)
              oshape == /\ s[14] \in {"+", "-"} /\ AllDigits(oh)
                        /\ s[17] = ":" /\ AllDigits(om)
          IN
          IF ~oshape THEN Raised
          ELSE IF ParseNat(oh) > 23 \/ ParseNat(om) > 59 THEN Raised
          ELSE
            LET mag == ParseNat(oh) * HOUR + ParseNat(om) * MINUTE
            IN  Returned(Aware(wall, IF s[14] = "-" THEN 0 - mag ELSE mag))

\* (a - b).days : timedelta normalises to days plus 0 <= seconds < 86400
TimedeltaDaysTrunc(secs) ==
    IF secs >= 0 THEN secs \div DAY ELSE 0 - ((0 - secs) \div DAY)

TimedeltaDays(secs) == secs \div DAY


\* ------------------------------------------------- the cloud API's answers
Pem(label, complete, not_after) ==
    [t |-> "pem", label |-> label, complete |-> complete, not_after |-> not_after]

ValidPem(not_after) == Pem("CERTIFICATE", TRUE, not_after)

TruncatedPem == Pem("CERTIFICATE", FALSE, 0)

PrivateKeyPem == Pem("PRIVATE KEY", TRUE, 0)

EmptyBody == Str(<<>>)

Resource(type, body) == [type |-> type, certificate |-> body]

\* compute.sslCertificates().get(...).execute() for each certificate name
SslCertificates ==
    [ m_none  |-> Resource("MANAGED", None),
      m_body  |-> Resource("MANAGED", ValidPem(Now0 + 20 * DAY)),
      s_exp   |-> Resource("SELF_MANAGED", ValidPem(Now0 - 1)),
      s_d11   |-> Resource("SELF_MANAGED", ValidPem(Now0 + 11 * DAY)),
      s_ok    |-> Resource("SELF_MANAGED", ValidPem(Now0 + 31 * DAY + 12 * HOUR)),
      s_trunc |-> Resource("SELF_MANAGED", TruncatedPem),
      s_key   |-> Resource("SELF_MANAGED", PrivateKeyPem),
      s_empty |-> Resource("SELF_MANAGED", EmptyBody),
      n_none  |-> Resource("None", None) ]

CertNames == DOMAIN SslCertificates

CertUrl(name) == <<"projects", "p", "global", "sslCertificates", name>>

\* host UTC offsets (seconds east of UTC) the script may run under
TzOffsets == {0, HOUR}

\* x509.load_pem_x509_certificate(data): the parsed certificate or ValueError
LoadPem(data) ==
    IF data.t # "pem" THEN [ok |-> FALSE, msg |-> <<"n", "o", " ", "P", "E", "M">>, not_valid_after |-> Naive(0)]
    ELSE IF data.label # "CERTIFICATE" THEN [ok |-> FALSE, msg |-> <<"n", "o", " ", "c", "e", "r", "t">>, not_valid_after |-> Naive(0)]
    ELSE IF ~data.complete THEN [ok |-> FALSE, msg |-> <<"b", "a", "d", " ", "D", "E", "R">>, not_valid_after |-> Naive(0)]
    ELSE [ok |-> TRUE, msg |-> <<>>, not_valid_after |-> Naive(data.not_after)]

\* ------------------------------------------------------------------- state
VARIABLES
    pc,          \* position of the script
    tz,          \* UTC offset of the host's local zone
    clock,       \* the current instant, datetime.now(pytz.utc)
    proxies,     \* answer of targetHttpsProxies().list()
    pi,          \* index of the proxy being scanned
    proxy_name,
    certs,       \* certificate URLs of the proxy being scanned
    ci,          \* index into certs
    ssl_infos,   \* records built by the scan, a local of fetch_target_https_proxies
    decoded,     \* certificate names handed to load_pem_x509_certificate
    cert_info,   \* the scan's return value
    ri,          \* index of the report loop
    status,      \* module-level variable of the report loop (unbound before it)
    out          \* printed lines, with the clock read and days_left of the iteration

vars == <<pc, tz, clock, proxies, pi, proxy_name, certs, ci, ssl_infos, decoded,
          cert_info, ri, status, out>>

scanVars == <<proxies, pi, proxy_name, certs, ci, ssl_infos, decoded>>

\* ------------------------------------------------------------------ inputs
RECURSIVE SumTo(_, _)
SumTo(f, n) == IF n = 0 THEN 0 ELSE f[n] + SumTo(f, n - 1)

FlatRefs == UNION {[1..k -> CertNames] : k \in 0..MaxRefs}

\* proxy i of a list cut out of the flat reference list
ProxyOf(flat, cut, omitEmpty, i) ==
    LET from == SumTo(cut, i - 1)
    IN  [name |-> ToString(i),
         hasCerts |-> ~(omitEmpty /\ cut[i] = 0),
         sslCertificates |-> [j \in 1..cut[i] |-> CertUrl(flat[from + j])]]

\* the answers of targetHttpsProxies().list(): no 'items' key, or up to
\* MaxProxies proxies sharing out the references of flat in order
IsProxyList(p) ==
    \/ p = [hasItems |-> FALSE, items |-> <<>>]
    \/ \E n \in 1..MaxProxies, flat \in FlatRefs, omitEmpty \in BOOLEAN :
         \E cut \in [1..n -> 0..Len(flat)] :
           /\ SumTo(cut, n) = Len(flat)
           /\ p = [hasItems |-> TRUE,
                   items |-> [i \in 1..n |-> ProxyOf(flat, cut, omitEmpty, i)]]

Init ==
    /\ pc = "list"
    /\ tz \in TzOffsets
    /\ clock = Now0
    /\ IsProxyList(proxies)
    /\ pi = 1
    /\ proxy_name = ""
    /\ certs = <<>>
    /\ ci = 1
    /\ ssl_infos = <<>>
    /\ decoded = {}
    /\ cert_info = <<>>
    /\ ri = 1
    /\ status = "OK"
    /\ out = <<>>

\* -------------------------------------------------------------------- scan
\* lines 57-62
ListProxies ==
    /\ pc = "list"
    /\ IF ~proxies.hasItems
         THEN /\ cert_info' = <<>>
              /\ pc' = "report"
         ELSE /\ cert_info' = cert_info
              /\ pc' = "proxies"
    /\ UNCHANGED <<tz, clock, scanVars, ri, status, out>>

\* lines 64-67
ProxyIter ==
    /\ pc = "proxies"
    /\ pi <= Len(proxies.items)
    /\ proxy_name' = proxies.items[pi].name
    /\ certs' = IF proxies.items[pi].hasCerts
                  THEN proxies.items[pi].sslCertificates ELSE <<>>
    /\ ci' = 1
    /\ pc' = "certs"
    /\ UNCHANGED <<tz, clock, proxies, pi, ssl_infos, decoded, cert_info, ri, status, out>>

\* line 79: whether the decoder is invoked
DecodesAll(is_managed, cert_data) == Truthy(cert_data)

Decodes(is_managed, cert_data) == ~is_managed /\ Truthy(cert_data)

\* lines 75-86: the value of expiry_date before the record is built
ExpiryDateDropError(is_managed, cert_data, host_tz) ==
    IF Decodes(is_managed, cert_data)
      THEN LET r == LoadPem(cert_data)
           IN  IF r.ok THEN AstimezoneUtc(r.not_valid_after, host_tz)
               ELSE None
      ELSE None

ExpiryDate(is_managed, cert_data, host_tz) ==
    IF Decodes(is_managed, cert_data)
      THEN LET r == LoadPem(cert_data)
           IN  IF r.ok THEN AstimezoneUtc(r.not_valid_after, host_tz)
               ELSE Str(ErrorPrefix \o r.msg)
      ELSE None

\* lines 89-94
RecordOf(pname, cname, is_managed, expiry_date) ==
    [proxy_name |-> pname,
     cert_name |-> cname,
     is_managed |-> is_managed,
     expiry_date |-> IF IsDatetime(expiry_date) THEN Str(Isoformat(expiry_date))
                     ELSE expiry_date]

\* the certificate loop leaving out a certificate whose decode raised
CertIterSkip ==
    /\ pc = "certs"
    /\ ci <= Len(certs)
    /\ LET cert_url == certs[ci]
           cert_name == cert_url[Len(cert_url)]
           cert == SslCertificates[cert_name]
           cert_data == cert.certificate
           cert_type == cert.type
           is_managed == (cert_type = "MANAGED")
           expiry_date == ExpiryDate(is_managed, cert_data, tz)
       IN  /\ decoded' = IF Decodes(is_managed, cert_data)
                           THEN decoded \cup {cert_name} ELSE decoded
           /\ ssl_infos' = IF Decodes(is_managed, cert_data) /\ ~LoadPem(cert_data).ok
                             THEN ssl_infos
                             ELSE Append(ssl_infos,
                                         RecordOf(proxy_name, cert_name, is_managed, expiry_date))
    /\ ci' = ci + 1
    /\ UNCHANGED <<pc, tz, clock, proxies, pi, proxy_name, certs, cert_info, ri, status, out>>

\* lines 69-94
CertIter ==
    /\ pc = "certs"
    /\ ci <= Len(certs)
    /\ LET cert_url == certs[ci]
           cert_name == cert_url[Len(cert_url)]
           cert == SslCertificates[cert_name]
           cert_data == cert.certificate
           cert_type == cert.type
           is_managed == (cert_type = "MANAGED")
           expiry_date == ExpiryDate(is_managed, cert_data, tz)
       IN  /\ decoded' = IF Decodes(is_managed, cert_data)
                           THEN decoded \cup {cert_name} ELSE decoded
           /\ ssl_infos' = Append(ssl_infos,
                                  RecordOf(proxy_name, cert_name, is_managed, expiry_date))
    /\ ci' = ci + 1
    /\ UNCHANGED <<pc, tz, clock, proxies, pi, proxy_name, certs, cert_info, ri, status, out>>

\* line 69, the certificate loop is exhausted
CertsDone ==
    /\ pc = "certs"
    /\ ci > Len(certs)
    /\ pi' = pi + 1
    /\ pc' = "proxies"
    /\ UNCHANGED <<tz, clock, proxies, proxy_name, certs, ci, ssl_infos, decoded,
                   cert_info, ri, status, out>>

\* lines 96 and 105
ScanReturn ==
    /\ pc = "proxies"
    /\ pi > Len(proxies.items)
    /\ cert_info' = ssl_infos
    /\ ssl_infos' = <<>>
    /\ pc' = "report"
    /\ UNCHANGED <<tz, clock, proxies, pi, proxy_name, certs, ci, decoded, ri, status, out>>


\* ------------------------------------------------------------------ report
NoDays == <<>>

\* lines 123-126, s0 is the status assigned on line 110
CategorizeStrict(days_left, s0) ==
    IF days_left < SoonDays THEN "Expiring Soon"
    ELSE IF days_left < WarnDays THEN "Warning"
    ELSE s0

Categorize(days_left, s0) ==
    IF days_left <= SoonDays THEN "Expiring Soon"
    ELSE IF days_left <= WarnDays THEN "Warning"
    ELSE s0

\* lines 118-128: the try block; any exception gives the bare except's status
TryExpiry(expiry_date, now, s0) ==
    IF ~IsStr(expiry_date)
      THEN [status |-> "Parse Error", days_left |-> NoDays]
    ELSE
      LET r == Fromisoformat(Replace(expiry_date.s, "Z", UtcSuffix))
      IN  IF ~r.ok \/ ~r.val.aware
            THEN [status |-> "Parse Error", days_left |-> NoDays]
          ELSE
            LET days_left == TimedeltaDays(Instant(r.val) - now)
            IN  [status |-> Categorize(days_left, s0), days_left |-> <<days_left>>]

\* whether the iteration reaches line 120 and reads the clock
ReadsClock(item) ==
    /\ ~(IsStr(item.expiry_date) /\ Contains(ErrorWord, item.expiry_date.s))
    /\ ~item.is_managed
    /\ IsStr(item.expiry_date)
    /\ Fromisoformat(Replace(item.expiry_date.s, "Z", UtcSuffix)).ok

\* lines 110-128 for one item, s0 is the status assigned on line 110
ReportBody(item, now, s0) ==
    IF IsStr(item.expiry_date) /\ Contains(ErrorWord, item.expiry_date.s)
      THEN [status |-> "Error", days_left |-> NoDays]
    ELSE IF ~item.is_managed
      THEN TryExpiry(item.expiry_date, now, s0)
    ELSE [status |-> s0, days_left |-> NoDays]

\* line 131 plus the iteration's clock read and days_left
Line(item, now, r) ==
    [status |-> r.status,
     proxy_name |-> item.proxy_name,
     cert_name |-> item.cert_name,
     is_managed |-> item.is_managed,
     expiry_date |-> item.expiry_date,
     now |-> now,
     days_left |-> r.days_left]

\* the report loop without the reset of line 110
ReportLineCarry ==
    /\ pc = "report"
    /\ ri <= Len(cert_info)
    /\ \E k \in 0..1 :
         /\ clock + k <= Now0 + MaxTicks
         /\ k = 1 => ReadsClock(cert_info[ri])
         /\ clock' = clock + k
    /\ LET r == ReportBody(cert_info[ri], clock', status)
       IN  /\ status' = r.status
           /\ out' = Append(out, Line(cert_info[ri], clock', r))
    /\ ri' = ri + 1
    /\ UNCHANGED <<pc, tz, scanVars, cert_info>>

\* lines 109-131
ReportLine ==
    /\ pc = "report"
    /\ ri <= Len(cert_info)
    /\ \E k \in 0..1 :
         /\ clock + k <= Now0 + MaxTicks
         /\ k = 1 => ReadsClock(cert_info[ri])
         /\ clock' = clock + k
    /\ LET r == ReportBody(cert_info[ri], clock', "OK")
       IN  /\ status' = r.status
           /\ out' = Append(out, Line(cert_info[ri], clock', r))
    /\ ri' = ri + 1
    /\ UNCHANGED <<pc, tz, scanVars, cert_info>>

\* line 109, the report loop is exhausted
ReportEnd ==
    /\ pc = "report"
    /\ ri > Len(cert_info)
    /\ pc' = "done"
    /\ UNCHANGED <<tz, clock, scanVars, cert_info, ri, status, out>>

Next ==
    \/ ListProxies
    \/ ProxyIter
    \/ CertIter
    \/ CertsDone
    \/ ScanReturn
    \/ ReportLine
    \/ ReportEnd

Spec == Init /\ [][Next]_vars


\* ------------------------------------ the report loop on arbitrary records
\* offsets of the expiry instant from the start of the report, in seconds
ClassifyOffsets ==
    { 0 - DAY, 0 - 1, 0, 1, 5 * DAY, 10 * DAY, 10 * DAY + 1, 10 * DAY + 23 * HOUR,
      11 * DAY, 11 * DAY + 1, 20 * DAY, 30 * DAY, 30 * DAY + 1, 30 * DAY + 23 * HOUR,
      31 * DAY, 31 * DAY + 1, 45 * DAY }

ClassifyInstants == {Now0 + o : o \in ClassifyOffsets} \cup {Now0 + o + 1 : o \in ClassifyOffsets}

Garbage == <<"s", "o", "o", "n">>

\* values the expiry_date field of a record may be given
ClassifyExpiry ==
    {None}
    \cup {Str(ErrorPrefix \o <<"b", "a", "d">>), Str(ErrorWord), Str(Garbage), Str(<<>>)}
    \cup {Str(Isoformat(Aware(Now0 + o, 0))) : o \in ClassifyOffsets}
    \cup {Str(Isoformat(Naive(Now0 + 5 * DAY))),
          Str(Isoformat(Naive(Now0 + 20 * DAY)) \o <<"Z">>),
          Str(Isoformat(Aware(Now0 + 11 * DAY, HOUR)))}

InitClassify ==
    /\ pc = "report"
    /\ tz = 0
    /\ clock = Now0
    /\ proxies = [hasItems |-> FALSE, items |-> <<>>]
    /\ pi = 1
    /\ proxy_name = ""
    /\ certs = <<>>
    /\ ci = 1
    /\ ssl_infos = <<>>
    /\ decoded = {}
    /\ \E m \in BOOLEAN, e \in ClassifyExpiry :
         cert_info = <<[proxy_name |-> "1", cert_name |-> "c",
                        is_managed |-> m, expiry_date |-> e]>>
    /\ ri = 1
    /\ status = "OK"
    /\ out = <<>>

NextClassify ==
    \/ ReportLine
    \/ ReportEnd

SpecClassify == InitClassify /\ [][NextClassify]_vars

\* ------------------------------------------------------------ vocabulary
Statuses == {"OK", "Error", "Expiring Soon", "Warning", "Parse Error"}

TimeTiers == {"OK", "Expiring Soon", "Warning"}

\* the record's expiry field holds a decode error
HasDecodeError(rec) ==
    IsStr(rec.expiry_date) /\ Contains(ErrorWord, rec.expiry_date.s)

\* the decode error carries a description after the fixed prefix
HasDescription(rec) ==
    /\ IsStr(rec.expiry_date)
    /\ Len(rec.expiry_date.s) > Len(ErrorPrefix)
    /\ SubSeq(rec.expiry_date.s, 1, Len(ErrorPrefix)) = ErrorPrefix

\* the record's expiry field holds a UTC timestamp
HasTimestamp(rec) ==
    /\ IsStr(rec.expiry_date)
    /\ Fromisoformat(rec.expiry_date.s).ok

\* the records of the scan: the list being built, then the returned list
Records == IF pc \in {"report", "done"} THEN cert_info ELSE ssl_infos

IsSelfManaged(name) == SslCertificates[name].type # "MANAGED"

\* the decoder would refuse the certificate's body
BodyUndecodable(name) == ~LoadPem(SslCertificates[name].certificate).ok

\* the (proxy, certificate) references in enumeration order
RECURSIVE RefsFrom(_, _)
RefsFrom(items, i) ==
    IF i > Len(items) THEN <<>>
    ELSE (IF items[i].hasCerts
            THEN [j \in 1..Len(items[i].sslCertificates) |->
                    <<items[i].name, items[i].sslCertificates[j][Len(items[i].sslCertificates[j])]>>]
            ELSE <<>>) \o RefsFrom(items, i + 1)

Refs == IF proxies.hasItems THEN RefsFrom(proxies.items, 1) ELSE <<>>


\* -------------------------------------------------------------- properties

\* C1: every record with is_managed true is reported as OK, whatever its
\* expiry_date field holds (absent, garbage, or a decode error string).
C1_ManagedAlwaysOk ==
    \A i \in DOMAIN out : out[i].is_managed => out[i].status = "OK"

\* C2: for a self-managed record whose days_left was computed, the status is
\* Expiring Soon when days_left <= 10, Warning when 10 < days_left <= 30 and
\* OK when days_left > 30; 10, 11, 30 and 31 fall on the stated sides, and
\* the three ranges partition the integers.
C2_TierBoundaries ==
    /\ \A i \in DOMAIN out :
         (~out[i].is_managed /\ out[i].days_left # NoDays) =>
           LET d == out[i].days_left[1]
           IN  /\ (d <= 10) => out[i].status = "Expiring Soon"
               /\ (10 < d /\ d <= 30) => out[i].status = "Warning"
               /\ (d > 30) => out[i].status = "OK"
               /\ (d = 10) => out[i].status = "Expiring Soon"
               /\ (d = 11) => out[i].status = "Warning"
               /\ (d = 30) => out[i].status = "Warning"
               /\ (d = 31) => out[i].status = "OK"
    /\ \A d \in (0 - 3)..40 :
         Cardinality({r \in {"soon", "warn", "ok"} :
                        \/ r = "soon" /\ d <= 10
                        \/ r = "warn" /\ 10 < d /\ d <= 30
                        \/ r = "ok" /\ d > 30}) = 1

C2_Witness ==
    \E i \in DOMAIN out :
      /\ ~out[i].is_managed
      /\ out[i].days_left = <<30>>
      /\ out[i].status = "Warning"
      /\ out[i].expiry_date = Str(Isoformat(Aware(out[i].now + 30 * DAY + 23 * HOUR, 0)))

\* C3: a self-managed certificate whose body the decoder refused gets a
\* record holding the decode error with its description, the report gives it
\* the status Error and no time-based status, and its line is not left out.
C3_DecodeFailureReported ==
    /\ \A i \in DOMAIN Records :
         (Records[i].cert_name \in decoded /\ BodyUndecodable(Records[i].cert_name)) =>
           /\ HasDecodeError(Records[i])
           /\ HasDescription(Records[i])
    /\ \A i \in DOMAIN out :
         (out[i].cert_name \in decoded /\ BodyUndecodable(out[i].cert_name)) =>
           /\ out[i].status = "Error"
           /\ out[i].status \notin TimeTiers
    /\ (pc \in {"report", "done"}) =>
         LET refs == Refs
         IN  \A i \in DOMAIN refs :
               (/\ IsSelfManaged(refs[i][2])
                /\ Truthy(SslCertificates[refs[i][2]].certificate)
                /\ BodyUndecodable(refs[i][2])) =>
                 /\ i \in DOMAIN cert_info
                 /\ cert_info[i].cert_name = refs[i][2]
                 /\ (pc = "done") => (i \in DOMAIN out /\ out[i].cert_name = refs[i][2])

C3_Witness ==
    /\ pc = "done"
    /\ \E i \in DOMAIN out :
         /\ out[i].cert_name = "s_key"
         /\ out[i].status = "Error"
         /\ HasDescription(out[i])

\* C4: every record of a self-managed certificate holds exactly one of a
\* decoded timestamp or a decode error.
C4_ExactlyOneOfTimestampOrError ==
    \A i \in DOMAIN Records :
      ~Records[i].is_managed =>
        (HasTimestamp(Records[i]) /\ ~HasDecodeError(Records[i]))
        \/ (~HasTimestamp(Records[i]) /\ HasDecodeError(Records[i]))

\* C5: a self-managed certificate whose body is empty, absent, truncated or
\* not a certificate gets a record holding a decode error with a description.
C5_UndecodableBodyHasDescription ==
    \A i \in DOMAIN Records :
      (/\ SslCertificates[Records[i].cert_name].type = "SELF_MANAGED"
       /\ BodyUndecodable(Records[i].cert_name)) =>
        /\ HasDecodeError(Records[i])
        /\ HasDescription(Records[i])

\* C6: the records, and then the report lines, are the certificate
\* references of the proxies in enumeration order, one each, also after a
\* decode failure.
C6_OneRecordOneLineInOrder ==
    /\ LET refs == Refs
           recs == Records
       IN  /\ Len(recs) <= Len(refs)
           /\ \A i \in DOMAIN recs :
                /\ recs[i].proxy_name = refs[i][1]
                /\ recs[i].cert_name = refs[i][2]
           /\ (pc \in {"report", "done"}) => Len(recs) = Len(refs)
           /\ (pc = "done") => Len(out) = Len(refs)
    /\ Len(out) <= Len(cert_info)
    /\ \A i \in DOMAIN out :
         /\ out[i].proxy_name = cert_info[i].proxy_name
         /\ out[i].cert_name = cert_info[i].cert_name
         /\ out[i].status \in Statuses

C6_Witness ==
    /\ pc = "done"
    /\ Len(out) = 2
    /\ out[1].status = "Error"
    /\ out[1].proxy_name # out[2].proxy_name

\* C7: the record of a decoded certificate holds exactly the certificate's
\* not-valid-after instant in UTC, whatever the host's local zone.
C7_StoredTimestampIsNotValidAfter ==
    \A i \in DOMAIN Records :
      LET name == Records[i].cert_name
      IN  (name \in decoded /\ ~BodyUndecodable(name)) =>
            Records[i].expiry_date =
              Str(Isoformat(Aware(SslCertificates[name].certificate.not_after, 0)))

\* C8: days_left is the floor of (expiry - now) in days: an expiry before
\* now gives a negative days_left and Expiring Soon, now + 10 d 23 h gives 10
\* and Expiring Soon, now + 30 d 23 h gives 30 and Warning; there is no
\* status beyond the five of the report.
C8_FloorOfDayDifference ==
    \A i \in DOMAIN out :
      /\ out[i].status \in Statuses
      /\ \A t \in ClassifyInstants :
           (~out[i].is_managed /\ out[i].expiry_date = Str(Isoformat(Aware(t, 0)))) =>
             /\ out[i].days_left # NoDays
             /\ LET d == out[i].days_left[1]
                    diff == t - out[i].now
                IN  /\ d * DAY <= diff
                    /\ diff < (d + 1) * DAY
                    /\ (diff < 0) => (d < 0 /\ out[i].status = "Expiring Soon")
                    /\ (diff = 10 * DAY + 23 * HOUR) =>
                         (d = 10 /\ out[i].status = "Expiring Soon")
                    /\ (diff = 30 * DAY + 23 * HOUR) =>
                         (d = 30 /\ out[i].status = "Warning")

C8_Witness ==
    \E i \in DOMAIN out :
      /\ ~out[i].is_managed
      /\ out[i].expiry_date = Str(Isoformat(Aware(out[i].now - 1, 0)))
      /\ out[i].days_left = <<0 - 1>>
      /\ out[i].status = "Expiring Soon"

\* C9: the decoder is never invoked for a certificate of type MANAGED, with
\* or without a body, and its record holds neither timestamp nor error.
C9_ManagedNeverDecoded ==
    /\ \A name \in decoded : SslCertificates[name].type # "MANAGED"
    /\ \A i \in DOMAIN Records :
         SslCertificates[Records[i].cert_name].type = "MANAGED" =>
           /\ Records[i].is_managed
           /\ Records[i].expiry_date = None

C9_Witness ==
    /\ decoded # {}
    /\ \E i \in DOMAIN Records :
         /\ Records[i].cert_name = "m_body"
         /\ Truthy(SslCertificates["m_body"].certificate)

\* C10: the status of a line depends only on the record's fields and the
\* clock read of its iteration: lines with equal fields and clock have equal
\* status, and a record that takes no branch prints OK whatever the status
\* of the line before it.
C10_StatusDependsOnOwnRecord ==
    /\ \A i, j \in DOMAIN out :
         (/\ out[i].is_managed = out[j].is_managed
          /\ out[i].expiry_date = out[j].expiry_date
          /\ out[i].now = out[j].now) => out[i].status = out[j].status
    /\ \A i \in DOMAIN out :
         (out[i].is_managed /\ ~HasDecodeError(out[i])) => out[i].status = "OK"
    /\ \A i \in DOMAIN out :
         (out[i].days_left # NoDays /\ out[i].days_left[1] > 30) => out[i].status = "OK"

C10_Witness ==
    /\ Len(out) = 2
    /\ out[1].status = "Expiring Soon"
    /\ out[2].is_managed
    /\ out[2].status = "OK"

====
